---- MODULE Spec2Model ----
(***************************************************************************)
(* Mesh-to-particle interpolation kernels of AMReX_TracerParticle_mod_K.H  *)
(* (orthogonal and terrain-fitted), modelled over exact rational numbers.  *)
(*                                                                         *)
(* amrex::Real / amrex::ParticleReal values are pairs <<n, d>>: d > 0 is a *)
(* finite rational in lowest terms, d = 0 is a non-finite value (<<1,0>>   *)
(* +inf, <<-1,0>> -inf, <<0,0>> NaN).  The inputs are dyadic rationals of  *)
(* small magnitude, on which binary floating point computes the same       *)
(* sums and products without rounding.                                     *)
(***************************************************************************)
EXTENDS Integers, Sequences, FiniteSets, TLC

\* ------------------------------------------------------------------ bounds
\* largest component count (ncomp, M) a caller passes
MaxComp == 2
\* largest num_arrays a caller of the general kernels passes
MaxArrays == 2

\* --------------------------------------------------------- real arithmetic
\* An operand is evaluated once, like the initialiser of a local variable:
\* Only({e(x) : x \in {v}}) is e with x standing for the value of v.
Only(S) == CHOOSE x \in S : TRUE

Abs(n) == IF n < 0 THEN -n ELSE n

Sgn(n) == IF n < 0 THEN -1 ELSE IF n > 0 THEN 1 ELSE 0

RECURSIVE Gcd(_, _)
Gcd(a, b) == Only({IF y = 0 THEN x ELSE Gcd(y, x % y) : x \in {a}, y \in {b}})

\* the real n/d (d # 0) in lowest terms with a positive denominator
Rat(n, d) ==
    Only({Only({<<(s * x) \div g, (s * y) \div g>> :
                    g \in {Gcd(Abs(x), Abs(y))}, s \in {IF y < 0 THEN -1 ELSE 1}}) :
              x \in {n}, y \in {d}})

Real(i) == <<i, 1>>

NaN == <<0, 0>>

IsFinite(a) == a[2] # 0

IsNaN(a) == a[2] = 0 /\ a[1] = 0

RAdd(a, b) ==
    Only({IF IsNaN(x) \/ IsNaN(y) THEN NaN
          ELSE IF ~IsFinite(x) /\ ~IsFinite(y) THEN (IF x[1] = y[1] THEN x ELSE NaN)
          ELSE IF ~IsFinite(x) THEN x
          ELSE IF ~IsFinite(y) THEN y
          ELSE Rat(x[1] * y[2] + y[1] * x[2], x[2] * y[2]) : x \in {a}, y \in {b}})

RNeg(a) == Only({<<-x[1], x[2]>> : x \in {a}})

RSub(a, b) == RAdd(a, RNeg(b))

RMul(a, b) ==
    Only({IF IsNaN(x) \/ IsNaN(y) THEN NaN
          ELSE IF ~IsFinite(x) \/ ~IsFinite(y)
               THEN <<Sgn(x[1]) * Sgn(y[1]), 0>>
          ELSE Rat(x[1] * y[1], x[2] * y[2]) : x \in {a}, y \in {b}})

RDiv(a, b) ==
    Only({IF IsNaN(x) \/ IsNaN(y) THEN NaN
          ELSE IF ~IsFinite(x) THEN (IF IsFinite(y)
                                     THEN <<x[1] * (IF y[1] < 0 THEN -1 ELSE 1), 0>>
                                     ELSE NaN)
          ELSE IF ~IsFinite(y) THEN Real(0)
          ELSE IF y[1] = 0 THEN <<Sgn(x[1]), 0>>
          ELSE Rat(x[1] * y[2], x[2] * y[1]) : x \in {a}, y \in {b}})

\* a >= b; every comparison with NaN is false
RGeq(a, b) ==
    Only({IF IsNaN(x) \/ IsNaN(y) THEN FALSE
          ELSE IF ~IsFinite(x) THEN (x[1] > 0 \/ x = y)
          ELSE IF ~IsFinite(y) THEN y[1] < 0
          ELSE x[1] * y[2] >= y[1] * x[2] : x \in {a}, y \in {b}})

\* a conversion to int that truncates toward zero
FloorTrunc(a) ==
    Only({IF x[1] < 0 THEN -((-x[1]) \div x[2]) ELSE x[1] \div x[2] : x \in {a}})

\* static_cast<int>(amrex::Math::floor(x)) of a finite x: the largest
\* integer not above x (\div rounds toward minus infinity)
Floor(a) == Only({x[1] \div x[2] : x \in {a}})

\* static_cast<Real>(!is_nodal[d][axis]): 1 on a cell-centered axis
NotNodal(nodal) == IF nodal = 0 THEN 1 ELSE 0

Half == Rat(1, 2)

Quarter == Rat(1, 4)

Eighth == Rat(1, 8)

\* ------------------------------------------------------------------ Array4
\* An Array4<Real const> is a read-only accessor.  The mesh data behind it
\* is given by integer coefficients over a common denominator:
\*   value(i,j,k,n) = (c0 + ci*i + cj*j + ck*k + cn*n + cij*i*j + cjk*j*k
\*                     + cii*i*i + cjj*j*j + ckk*k*k + bump) / den,
\* where bump is added at every index other than `at`.
Array4(lin, quad, den) ==
    [c0 |-> lin[1], ci |-> lin[2], cj |-> lin[3], ck |-> lin[4], cn |-> lin[5],
     cij |-> quad[1], cjk |-> quad[2], cii |-> quad[3], cjj |-> quad[4], ckk |-> quad[5],
     den |-> den, bump |-> 0, at |-> <<0, 0, 0>>]

\* data_arr(i, j, k, n)
At(a, i, j, k, n) ==
    Rat(a.c0 + a.ci * i + a.cj * j + a.ck * k + a.cn * n + a.cij * i * j
          + a.cjk * j * k + a.cii * i * i + a.cjj * j * j + a.ckk * k * k
          + (IF <<i, j, k>> = a.at THEN 0 ELSE a.bump),
        a.den)

\* data_arr(IntVect(AMREX_D_DECL(i, j, k)), n): the axes beyond the
\* dimension are indexed 0
AtIV(dim, a, i, j, k, n) ==
    At(a, i, IF dim > 1 THEN j ELSE 0, IF dim > 2 THEN k ELSE 0, n)

\* IntVect::TheZeroVector(), IntVect::TheUnitVector()
TheZeroVector == <<0, 0, 0>>

TheUnitVector == <<1, 1, 1>>

\* is_nodal[d] of mac_interpolate: zero vector with is_nodal[d][d] = 1
BasisVector(d) == [a \in 1..3 |-> IF a = d + 1 THEN 1 ELSE 0]

\* ------------------------------------------------- kernel building blocks
\* An interpolation request is (env, args, val):
\*   env  = [dim, plo, dxi, pos, idata, height]  build dimension, grid
\*          metadata, particle and height field
\*   args = [data_arr, is_nodal, start_comp, ncomp, num_arrays]
\* A call in progress is a record ls of the kernel's local variables: pc (the
\* position in the code), d, comp, ctr, corner (the corner-loop counter),
\* i0 (lower corner), s (weight tables), val (the output buffer), and two
\* observers: reads (number of Array4 reads made so far) and log (the
\* <<d, comp, ctr>> of every `val[ctr] = 0` executed so far).

\* a fractional index without the half-cell shift of cell-centered axes
FracIndexNoShift(env, nod, a) == RMul(RSub(env.pos[a], env.plo[a]), env.dxi[a])

\* l = (p.pos(a) - plo[a]) * dxi[a] - static_cast<Real>(!is_nodal[d][a]) * 0.5
FracIndex(env, nod, a) ==
    RSub(RMul(RSub(env.pos[a], env.plo[a]), env.dxi[a]),
         RMul(Real(NotNodal(nod[a])), Half))

\* the weight pair in the wrong order
WeightsSwapped(xint) == Only({<<x, RSub(Real(1), x)>> : x \in {xint}})

\* amrex::Real sx[] = {1.0 - xint, xint}
Weights(xint) == Only({<<RSub(Real(1), x), x>> : x \in {xint}})

\* the condition of `for (int comp = start_comp; comp < ncomp; ++comp)`
CompLoopCond(comp, start_comp, ncomp) == comp < ncomp

\* an accumulator that is not zeroed first
InitAccumKeep(old) == old

\* `val[ctr] = ParticleReal(0.0)`: the accumulator's first value, whatever the
\* buffer held
InitAccum(old) == Real(0)

\* an output counter that is not advanced
NextCtrStuck(ctr) == ctr

\* `ctr++`
NextCtr(ctr) == ctr + 1

\* the loop counters (ii, jj, kk) of corner number c, ii running fastest
CornerII(c) == c % 2

CornerJJ(c) == (c \div 2) % 2

CornerKK(c) == c \div 4

NumCorners(dim) == IF dim = 1 THEN 2 ELSE IF dim = 2 THEN 4 ELSE 8

\* the state of a call on entry: `int ctr = 0`, nothing read or written
Entry(val, kernel) ==
    [pc |-> IF kernel = "z" THEN "entry" ELSE "for_d", kernel |-> kernel, d |-> 0, comp |-> 0, ctr |-> 0, corner |-> 0,
     i0 |-> <<0, 0, 0>>, s |-> <<<<>>, <<>>, <<>>>>, val |-> val, reads |-> 0,
     log |-> <<>>]

\* ----------------------------------------- linear_interpolate_to_particle
\* `for (d = 0; d < num_arrays; d++)`: loop test, then the index and weight
\* computation of the loop body up to the component loop
OrthForD(env, args, ls) ==
    IF ls.d < args.num_arrays
    THEN LET nod == args.is_nodal[ls.d + 1]
             l   == [a \in 1..3 |-> FracIndex(env, nod, a)]
             i0  == [a \in 1..3 |-> IF a <= env.dim THEN Floor(l[a]) ELSE 0]
             s   == [a \in 1..3 |-> Weights(RSub(l[a], Real(i0[a])))]
         IN  [ls EXCEPT !.pc = "for_comp", !.comp = args.start_comp,
                        !.i0 = i0, !.s = s]
    ELSE [ls EXCEPT !.pc = "done"]

\* `for (comp = start_comp; comp < ncomp; ++comp)`: loop test, then
\* `val[ctr] = ParticleReal(0.0)`
ForComp(env, args, ls) ==
    IF CompLoopCond(ls.comp, args.start_comp, args.ncomp)
    THEN [ls EXCEPT !.pc = "corner", !.corner = 0,
                    !.val = [ls.val EXCEPT ![ls.ctr] = InitAccum(ls.val[ls.ctr])],
                    !.log = Append(ls.log, <<ls.d, ls.comp, ls.ctr>>)]
    ELSE [ls EXCEPT !.pc = "for_d", !.d = ls.d + 1]

\* one pass of the innermost corner loop,
\*   val[ctr] += data_arr[d](IntVect(i0+ii, j0+jj, k0+kk), comp) * sx[ii]*sy[jj]*sz[kk]
\* or, once the corners are exhausted, `ctr++` and `++comp`
OrthCorner(env, args, ls) ==
    IF ls.corner < NumCorners(env.dim)
    THEN LET ii == CornerII(ls.corner)
             jj == CornerJJ(ls.corner)
             kk == CornerKK(ls.corner)
             w1 == ls.s[1][ii + 1]
             w2 == IF env.dim > 1 THEN RMul(w1, ls.s[2][jj + 1]) ELSE w1
             w3 == IF env.dim > 2 THEN RMul(w2, ls.s[3][kk + 1]) ELSE w2
             v  == AtIV(env.dim, args.data_arr[ls.d + 1],
                        ls.i0[1] + ii, ls.i0[2] + jj, ls.i0[3] + kk, ls.comp)
         IN  [ls EXCEPT !.corner = ls.corner + 1, !.reads = ls.reads + 1,
                        !.val = [ls.val EXCEPT ![ls.ctr] = RAdd(ls.val[ls.ctr], RMul(v, w3))]]
    ELSE [ls EXCEPT !.pc = "for_comp", !.ctr = NextCtr(ls.ctr), !.comp = ls.comp + 1]

\* --------------------------------------- linear_interpolate_to_particle_z
\* an entry without the 1D check
ZEntryNoAbort(env, args, ls) == [ls EXCEPT !.pc = "for_d"]

\* `#if (AMREX_SPACEDIM == 1) ... amrex::Abort(...)`: the call does not return
ZEntry(env, args, ls) ==
    IF env.dim = 1 THEN [ls EXCEPT !.pc = "aborted"] ELSE [ls EXCEPT !.pc = "for_d"]

\* 0.25 * (height_arr(i, j, k) + height_arr(i + !nodal[0], j, k)
\*         + height_arr(i, j + !nodal[1], k) + height_arr(i + !nodal[0], j + !nodal[1], k))
\* with k = 0 (2D)
HeightAvg2D(h, nod, i0, j0) ==
    LET di == NotNodal(nod[1])
        dj == NotNodal(nod[2])
    IN  Only({RMul(Quarter,
                   RAdd(RAdd(RAdd(At(h, i, j, 0, 0), At(h, i + di, j, 0, 0)),
                             At(h, i, j + dj, 0, 0)),
                        At(h, i + di, j + dj, 0, 0))) : i \in {i0}, j \in {j0}})

\* 0.125 * (sum of height_arr over the 8 index offsets (0|!nodal[0], 0|!nodal[1], 0|!nodal[2]))
HeightAvg3D(h, nod, i0, j0, k0) ==
    LET di == NotNodal(nod[1])
        dj == NotNodal(nod[2])
        dk == NotNodal(nod[3])
        lo(i, j, k) == RAdd(RAdd(RAdd(At(h, i, j, k, 0), At(h, i + di, j, k, 0)),
                                 At(h, i, j + dj, k, 0)),
                            At(h, i + di, j + dj, k, 0))
        hi(i, j, k) == RAdd(RAdd(RAdd(At(h, i, j, k + dk, 0), At(h, i + di, j, k + dk, 0)),
                                 At(h, i, j + dj, k + dk, 0)),
                            At(h, i + di, j + dj, k + dk, 0))
    IN  Only({RMul(Eighth, RAdd(lo(i, j, k), hi(i, j, k))) :
                  i \in {i0}, j \in {j0}, k \in {k0}})

\* a locator that always steps down from the seed
ResolveIndexDown(pv, height_at_p, k) == k - 1

\* a locator that keeps the seed only strictly above the estimate
ResolveIndexStrict(pv, height_at_p, k) == IF RGeq(height_at_p, pv) THEN k - 1 ELSE k

\* a locator that never steps down from the seed
ResolveIndexKeep(pv, height_at_p, k) == k

\* `(p.pos(v) >= height_at_p) ? k : k-1`
ResolveIndex(pv, height_at_p, k) == IF RGeq(pv, height_at_p) THEN k ELSE k - 1

\* a vertical fraction measured from the upper height
HeightFracFromTop(pv, lo, hi) == Only({RDiv(RSub(hi, pv), RSub(hi, l)) : l \in {lo}})

\* hint = (p.pos(v) - ht_lo) / (ht_hi - ht_lo)
HeightFrac(pv, lo, hi) == Only({RDiv(RSub(pv, l), RSub(hi, l)) : l \in {lo}})

\* the 2D body of the array loop up to the resolved vertical index: the
\* column index i0, the horizontal weights sx and j0
ZLocate2D(env, nod) ==
    LET h    == env.height
        lx   == FracIndex(env, nod, 1)
        i0   == Floor(lx)
        j    == env.idata
        hlo_xlo == HeightAvg2D(h, nod, i0, j)
        hlo_xhi == HeightAvg2D(h, nod, i0 + 1, j)
        sx   == Weights(RSub(lx, Real(i0)))
        height_at_px == RAdd(RMul(sx[1], hlo_xlo), RMul(sx[2], hlo_xhi))
    IN  [i0 |-> i0, sx |-> sx, j0 |-> ResolveIndex(env.pos[2], height_at_px, j)]

\* the 2D body of the array loop up to the component loop
ZSetup2D(env, args, ls) ==
    LET nod  == args.is_nodal[ls.d + 1]
        h    == env.height
        \* ht[yctr], yctr = 2*ii + jj
        ht(loc, y) == HeightAvg2D(h, nod, loc.i0 + (y \div 2), loc.j0 + (y % 2))
        hint_ilo(loc) == HeightFrac(env.pos[2], ht(loc, 0), ht(loc, 1))
        hint_ihi(loc) == HeightFrac(env.pos[2], ht(loc, 2), ht(loc, 3))
        sy(lo, hi) == <<RSub(Real(1), lo), RSub(Real(1), hi), lo, hi>>
    IN  Only({[ls EXCEPT !.pc = "for_comp", !.comp = args.start_comp,
                         !.i0 = <<loc.i0, loc.j0, 0>>,
                         !.s = <<loc.sx, sy(hint_ilo(loc), hint_ihi(loc)), <<>>>>,
                         !.reads = ls.reads + 24] : loc \in {ZLocate2D(env, nod)}})

\* the 3D body of the array loop up to the resolved vertical index: the
\* column indices i0, j0, the horizontal weights sx, sy and k0
ZLocate3D(env, nod) ==
    LET h    == env.height
        lx   == FracIndex(env, nod, 1)
        ly   == FracIndex(env, nod, 2)
        i0   == Floor(lx)
        j0   == Floor(ly)
        k    == env.idata
        sx   == Weights(RSub(lx, Real(i0)))
        sy   == Weights(RSub(ly, Real(j0)))
        \* hlo[ilo], ilo = 2*ii + jj
        hlo  == [y \in 0..3 |-> HeightAvg3D(h, nod, i0 + (y \div 2), j0 + (y % 2), k)]
        term(y) == RMul(RMul(hlo[y], sx[(y \div 2) + 1]), sy[(y % 2) + 1])
        height_at_pxy == RAdd(RAdd(RAdd(RAdd(Real(0), term(0)), term(1)), term(2)), term(3))
    IN  [i0 |-> i0, j0 |-> j0, sx |-> sx, sy |-> sy,
         k0 |-> ResolveIndex(env.pos[3], height_at_pxy, k)]

\* the 3D body of the array loop up to the component loop
ZSetup3D(env, args, ls) ==
    LET nod  == args.is_nodal[ls.d + 1]
        h    == env.height
        \* ht[zctr], zctr = 4*ii + 2*jj + kk
        ht(loc, z) == HeightAvg3D(h, nod, loc.i0 + (z \div 4), loc.j0 + ((z \div 2) % 2),
                                  loc.k0 + (z % 2))
        hint_ilojlo(loc) == HeightFrac(env.pos[3], ht(loc, 0), ht(loc, 1))
        hint_ilojhi(loc) == HeightFrac(env.pos[3], ht(loc, 2), ht(loc, 3))
        hint_ihijlo(loc) == HeightFrac(env.pos[3], ht(loc, 4), ht(loc, 5))
        hint_ihijhi(loc) == HeightFrac(env.pos[3], ht(loc, 6), ht(loc, 7))
        sz(lolo, lohi, hilo, hihi) ==
            <<RSub(Real(1), lolo), RSub(Real(1), hilo), RSub(Real(1), lohi),
              RSub(Real(1), hihi), lolo, hilo, lohi, hihi>>
    IN  Only({[ls EXCEPT !.pc = "for_comp", !.comp = args.start_comp,
                         !.i0 = <<loc.i0, loc.j0, loc.k0>>,
                         !.s = <<loc.sx, loc.sy,
                                 sz(hint_ilojlo(loc), hint_ilojhi(loc),
                                    hint_ihijlo(loc), hint_ihijhi(loc))>>,
                         !.reads = ls.reads + 96] : loc \in {ZLocate3D(env, nod)}})

\* `for (d = 0; d < num_arrays; d++)` of the terrain-fitted kernel
ZForD(env, args, ls) ==
    IF ls.d < args.num_arrays
    THEN IF env.dim = 3 THEN ZSetup3D(env, args, ls) ELSE ZSetup2D(env, args, ls)
    ELSE [ls EXCEPT !.pc = "done"]

\* one pass of the innermost corner loop of the terrain-fitted kernel:
\*   2D: val[ctr] += data_arr[d](i0+ii, j0+jj, 0, comp) * sx[ii] * sy[sy_ctr]
\*   3D: val[ctr] += data_arr[d](i0+ii, j0+jj, k0+kk, comp) * sx[ii] * sy[jj] * sz[sz_ctr]
\* (sy_ctr, sz_ctr count the passes), or `ctr++` and `++comp` after the last
ZCorner(env, args, ls) ==
    IF ls.corner < NumCorners(env.dim)
    THEN LET ii == CornerII(ls.corner)
             jj == CornerJJ(ls.corner)
             kk == CornerKK(ls.corner)
             w  == IF env.dim = 3
                   THEN RMul(RMul(ls.s[1][ii + 1], ls.s[2][jj + 1]), ls.s[3][ls.corner + 1])
                   ELSE RMul(ls.s[1][ii + 1], ls.s[2][ls.corner + 1])
             v  == IF env.dim = 3
                   THEN At(args.data_arr[ls.d + 1], ls.i0[1] + ii, ls.i0[2] + jj,
                           ls.i0[3] + kk, ls.comp)
                   ELSE At(args.data_arr[ls.d + 1], ls.i0[1] + ii, ls.i0[2] + jj, 0, ls.comp)
         IN  [ls EXCEPT !.corner = ls.corner + 1, !.reads = ls.reads + 1,
                        !.val = [ls.val EXCEPT ![ls.ctr] = RAdd(ls.val[ls.ctr], RMul(v, w))]]
    ELSE [ls EXCEPT !.pc = "for_comp", !.ctr = NextCtr(ls.ctr), !.comp = ls.comp + 1]

\* ------------------------------------------------------------ whole calls
Finished(ls) == ls.pc \in {"done", "aborted"}

\* the next statement of a call in progress
Step(env, args, ls) ==
    CASE ls.pc = "entry"    -> ZEntry(env, args, ls)
      [] ls.pc = "for_d"    -> IF ls.kernel = "z" THEN ZForD(env, args, ls)
                                                  ELSE OrthForD(env, args, ls)
      [] ls.pc = "for_comp" -> ForComp(env, args, ls)
      [] ls.pc = "corner"   -> IF ls.kernel = "z" THEN ZCorner(env, args, ls)
                                                  ELSE OrthCorner(env, args, ls)

\* the next 2^n statements of a call, or all that are left if it ends sooner
RECURSIVE Steps(_, _, _, _)
Steps(env, args, ls, n) ==
    IF Finished(ls) THEN ls
    ELSE IF n = 0 THEN Step(env, args, ls)
    ELSE Only({Steps(env, args, mid, n - 1) : mid \in {Steps(env, args, ls, n - 1)}})

\* a call run to its end
RECURSIVE Run(_, _, _)
Run(env, args, ls) ==
    Only({IF Finished(r) THEN r ELSE Run(env, args, r) : r \in {Steps(env, args, ls, 6)}})

Args(data_arr, is_nodal, start_comp, ncomp, num_arrays) ==
    [data_arr |-> data_arr, is_nodal |-> is_nodal, start_comp |-> start_comp,
     ncomp |-> ncomp, num_arrays |-> num_arrays]

linear_interpolate_to_particle(env, data_arr, val, is_nodal, start_comp, ncomp, num_arrays) ==
    Run(env, Args(data_arr, is_nodal, start_comp, ncomp, num_arrays), Entry(val, "orth"))

linear_interpolate_to_particle_z(env, data_arr, val, is_nodal, start_comp, ncomp, num_arrays) ==
    Run(env, Args(data_arr, is_nodal, start_comp, ncomp, num_arrays), Entry(val, "z"))

\* ------------------------------------------------------- the entry points
\* Each entry point fixes the kernel and the arguments it passes on; a
\* request is [kernel, args].
Request(kernel, data_arr, is_nodal, start_comp, ncomp, num_arrays) ==
    [kernel |-> kernel, args |-> Args(data_arr, is_nodal, start_comp, ncomp, num_arrays)]

\* is_nodal[] of the face-centered entry points
MacNodal(dim) == [d \in 1..dim |-> BasisVector(d - 1)]

\* the cell-centered entry point passing the nodal staggering
cic_interpolate_cc_nodal(data_arr, M) ==
    Request("orth", <<data_arr>>, <<TheUnitVector>>, 0, M, 1)

cic_interpolate_cc(data_arr, M) ==
    Request("orth", <<data_arr>>, <<TheZeroVector>>, 0, M, 1)

cic_interpolate(data_arr, M) == cic_interpolate_cc(data_arr, M)

\* the node-centered entry point passing the cell-centered staggering
cic_interpolate_nd_cell(data_arr, M) ==
    Request("orth", <<data_arr>>, <<TheZeroVector>>, 0, M, 1)

cic_interpolate_nd(data_arr, M) ==
    Request("orth", <<data_arr>>, <<TheUnitVector>>, 0, M, 1)

mac_interpolate(dim, data_arr) ==
    Request("orth", data_arr, MacNodal(dim), 0, 1, dim)

cic_interpolate_cc_mapped_z(data_arr, M) ==
    Request("z", <<data_arr>>, <<TheZeroVector>>, 0, M, 1)

cic_interpolate_mapped_z(data_arr, M) == cic_interpolate_cc_mapped_z(data_arr, M)

cic_interpolate_nd_mapped_z(data_arr, M) ==
    Request("z", <<data_arr>>, <<TheUnitVector>>, 0, M, 1)

mac_interpolate_mapped_z(dim, data_arr) ==
    Request("z", data_arr, MacNodal(dim), 0, 1, dim)

\* the call a request leads to, run to its end on the buffer val
Invoke(env, req, val) ==
    Only({Run(e, a, ls) : e \in {env}, a \in {req.args}, ls \in {Entry(val, req.kernel)}})

\* ------------------------------------------------------------- the inputs
\* number of field arrays on the mesh (mac_interpolate needs one per axis)
NumMesh == IF MaxArrays > 3 THEN MaxArrays ELSE 3

\* length of the caller's output buffer: room for every request, plus slack
BufLen == (IF MaxArrays * MaxComp > 3 THEN MaxArrays * MaxComp ELSE 3) + 2

\* the caller's buffer before the call
FreshVal == [i \in 0..(BufLen - 1) |-> Real(-100 - i)]

\* field d of the mesh; field 1 holds 10, 20, 30, 40 at (0,0), (1,0), (0,1), (1,1)
MeshField(d) ==
    IF d = 1 THEN Array4(<<10, 4, 8, 40, 5>>, <<0, 0, 6, 12, 3>>, 1)
             ELSE Array4(<<3 * d, -2, 7, d, 11>>, <<2, -3, 1, d, -2>>, 2)

Mesh == [d \in 1..NumMesh |-> MeshField(d)]

\* plo (in quarter units) and dxi, the same on every axis
Grid(a, b) ==
    [plo |-> <<Rat(a, 4), Rat(a, 4), Rat(a, 4)>>, dxi |-> <<Real(b), Real(b), Real(b)>>]

\* the grids: plo = 0 with cells of width 1, plo = 1/4 with cells of width 1/2
Grids == {Grid(0, 1), Grid(1, 2)}

\* particle positions, in quarter units: on nodes, on cell centers, on face
\* centers and off the grid
Positions ==
    {<<Rat(q[1], 4), Rat(q[2], 4), Rat(q[3], 4)>> :
        q \in {<<4, 4, 4>>, <<2, 2, 2>>, <<4, 6, 6>>, <<6, 4, 6>>, <<6, 6, 4>>, <<1, 3, 7>>,
               <<5, 2, 3>>, <<7, 5, 1>>}}

\* seed vertical indices idata(0) carried by the particles
Seeds == {0, 1, 2}

\* start_comp values a caller of the general kernels passes
Starts == {0, 1}

\* the vertical axis: y in 2D, z in 3D
Vertical(dim) == IF dim = 3 THEN 3 ELSE 2

\* height field of a flat terrain: plo_v + k / dxi_v at vertical index k
FlatHeight(dim, g) ==
    LET v  == Vertical(dim)
        c0 == g.plo[v][1] * (4 \div g.plo[v][2])
        ck == 4 \div g.dxi[v][1]
    IN  IF v = 3 THEN Array4(<<c0, 0, 0, ck, 0>>, <<0, 0, 0, 0, 0>>, 4)
                 ELSE Array4(<<c0, 0, ck, 0, 0>>, <<0, 0, 0, 0, 0>>, 4)

\* height field of a sloping terrain: the flat one raised by i/8 per column
TiltedHeight(dim, g) ==
    LET f == FlatHeight(dim, g)
    IN  [f EXCEPT !.c0 = 2 * f.c0, !.ci = 1, !.cj = 2 * f.cj, !.ck = 2 * f.ck, !.den = 8]

Height(kind, dim, g) ==
    IF kind = "flat" THEN FlatHeight(dim, g) ELSE TiltedHeight(dim, g)

\* staggerings a caller of the general kernels passes: is_nodal[0..]
Staggerings ==
    {[d \in 1..NumMesh |-> TheZeroVector],
     [d \in 1..NumMesh |-> TheUnitVector],
     [d \in 1..NumMesh |-> BasisVector((d - 1) % 3)]}

\* -------------------------------------------------------------- GMRESMLMGT
\* The MLMG-as-preconditioner adapter of AMReX_GMRES_MLMG.H.  A MultiFab is
\* one of the values MFs.  lhs.setVal and amrex::Copy do what their names
\* say; m_linop.smooth is a call into the linear operator that leaves any
\* MultiFab in lhs and does not touch rhs (it is passed as MF const&).

\* the MultiFabs a caller passes
MFs == {0, 1}

\* `for (int m = 0; m < 4; ++m)`: the number of smoothing passes
NumSmooth == 4

\* a library call made by precond: the function, lhs as it was when the
\* call was made, rhs, and the skip-boundary-fill argument of smooth
LibCall(fn, lhs, rhs, skip) == [fn |-> fn, lhs |-> lhs, rhs |-> rhs, skip |-> skip]

\* the object after construction: `bool m_use_precond = false`
GMRESMLMGT == [m_use_precond |-> FALSE]

\* an exchange that returns the new value
exchangeNew(obj, new_value) == <<new_value, new_value>>

\* std::exchange(obj, new_value): <<the value returned, the value of obj>>
exchange(obj, new_value) == <<obj, new_value>>

\* bool usePrecond (bool new_flag): the value returned and the object
usePrecond(self, new_flag) ==
    LET x == exchange(self.m_use_precond, new_flag)
    IN  [ret |-> x[1], self |-> [self EXCEPT !.m_use_precond = x[2]]]

\* lhs.setVal(value)
setVal(lhs, value) == value

\* amrex::Copy(lhs, rhs, 0, 0, lhs.nComp(), IntVect(0))
Copy(lhs, rhs) == rhs

\* the passes m, m+1, ... of the smoothing loop; smoothed[m + 1] is what
\* pass m leaves in lhs
RECURSIVE SmoothLoop(_, _, _, _, _)
SmoothLoop(m, lhs, rhs, smoothed, calls) ==
    IF m < NumSmooth
    THEN SmoothLoop(m + 1, smoothed[m + 1], rhs, smoothed,
                    Append(calls, LibCall("smooth", lhs, rhs, m = 0)))
    ELSE [lhs |-> lhs, rhs |-> rhs, calls |-> calls]

\* void precond (MF& lhs, MF const& rhs) const: the object, lhs and rhs after
\* the call and the library calls made
precond(self, lhs, rhs, smoothed) ==
    LET r == IF self.m_use_precond
             THEN SmoothLoop(0, setVal(lhs, 0), rhs, smoothed,
                             <<LibCall("setVal", lhs, rhs, FALSE)>>)
             ELSE [lhs |-> Copy(lhs, rhs), rhs |-> rhs,
                   calls |-> <<LibCall("Copy", lhs, rhs, FALSE)>>]
    IN  [self |-> self, lhs |-> r.lhs, rhs |-> r.rhs, calls |-> r.calls]

\* a member function call and its arguments
MemberCall(fn, new_flag, lhs, rhs) == [fn |-> fn, new_flag |-> new_flag, lhs |-> lhs, rhs |-> rhs]

\* the adapter and its caller after construction: no call made, nothing
\* returned; requested is the flag the caller asked for last (false before
\* it asks)
Constructed ==
    [self |-> GMRESMLMGT, requested |-> FALSE, op |-> MemberCall("none", FALSE, 0, 0),
     ret |-> FALSE, lhs |-> 0, rhs |-> 0, calls |-> <<>>]

\* ------------------------------------------------------------------ state
VARIABLES
    gmres,    \* the GMRESMLMGT object, its caller's last call and MultiFabs
    dim,      \* AMREX_SPACEDIM of the build
    plo,      \* physical lower corner, per axis
    dxi,      \* inverse cell spacing, per axis
    mesh,     \* the field arrays
    height,   \* the height field
    pos,      \* pos[t]: position of the particle of invocation t
    idata,    \* idata[t]: its idata(0)
    call,     \* call[t]: the entry point invoked and its request, or NoCall
    st        \* st[t]: the call's local state; st[t].val is its output buffer

vars == <<dim, plo, dxi, mesh, height, pos, idata, call, st, gmres>>

inputs == <<dim, plo, dxi, mesh, height, pos, idata>>

NoCall == [fn |-> "none"]

Threads == DOMAIN pos

Called(t) == call[t] # NoCall

\* what invocation t is given besides its request and buffer
Env(t) ==
    [dim |-> dim, plo |-> plo, dxi |-> dxi, pos |-> pos[t], idata |-> idata[t],
     height |-> height]

Idle(val) == [Entry(val, "orth") EXCEPT !.pc = "idle"]

\* invocations T, grid from G, particle positions from P (one choice gives
\* every invocation its particle), seeds from S, terrain of a kind in K
InitOn(T, G, P, S, K) ==
    /\ dim \in 1..3
    /\ \E g \in G, kind \in K :
         /\ plo = g.plo
         /\ dxi = g.dxi
         /\ height = Height(kind, dim, g)
    /\ mesh = Mesh
    /\ pos \in P
    /\ idata \in [T -> S]
    /\ call = [t \in T |-> NoCall]
    /\ st = [t \in T |-> Idle(FreshVal)]
    /\ gmres = Constructed

\* the orthogonal kernels read neither the seed nor the height field
Init == InitOn({1}, Grids, [{1} -> Positions], {0}, {"flat"})

InitZ == InitOn({1}, Grids, [{1} -> Positions], Seeds, {"flat", "tilted"})

\* two particles interpolated concurrently, each into its own buffer
ParticlePairs ==
    {<<<<Rat(3, 4), Rat(5, 4), Rat(3, 2)>>, <<Rat(1, 1), Rat(1, 2), Rat(5, 4)>>>>}

InitPar == InitOn({1, 2}, {Grid(0, 1)}, ParticlePairs, {1}, {"tilted"})

\* ---------------------------------------------------------------- actions
\* invocation t calls entry point fn (M: the component count it is given),
\* which runs to its end
Do(t, fn, M, req) ==
    /\ call[t] = NoCall
    /\ call' = [call EXCEPT ![t] = [fn |-> fn, M |-> M, kernel |-> req.kernel,
                                    args |-> req.args]]
    /\ st' = [st EXCEPT ![t] = Invoke(Env(t), req, st[t].val)]
    /\ UNCHANGED <<inputs, gmres>>

Call_cic_interpolate(t) ==
    \E M \in 1..MaxComp : Do(t, "cic_interpolate", M, cic_interpolate(mesh[1], M))

Call_cic_interpolate_cc(t) ==
    \E M \in 1..MaxComp : Do(t, "cic_interpolate_cc", M, cic_interpolate_cc(mesh[1], M))

Call_cic_interpolate_nd(t) ==
    \E M \in 1..MaxComp : Do(t, "cic_interpolate_nd", M, cic_interpolate_nd(mesh[1], M))

Call_mac_interpolate(t) == Do(t, "mac_interpolate", 1, mac_interpolate(dim, mesh))

Call_linear_interpolate_to_particle(t) ==
    \E sc \in Starts, nc \in 0..MaxComp, na \in 0..MaxArrays, stag \in Staggerings :
        Do(t, "linear_interpolate_to_particle", nc, Request("orth", mesh, stag, sc, nc, na))

Call_cic_interpolate_mapped_z(t) ==
    \E M \in 1..MaxComp : Do(t, "cic_interpolate_mapped_z", M, cic_interpolate_mapped_z(mesh[1], M))

Call_cic_interpolate_cc_mapped_z(t) ==
    \E M \in 1..MaxComp :
        Do(t, "cic_interpolate_cc_mapped_z", M, cic_interpolate_cc_mapped_z(mesh[1], M))

Call_cic_interpolate_nd_mapped_z(t) ==
    \E M \in 1..MaxComp :
        Do(t, "cic_interpolate_nd_mapped_z", M, cic_interpolate_nd_mapped_z(mesh[1], M))

Call_mac_interpolate_mapped_z(t) ==
    Do(t, "mac_interpolate_mapped_z", 1, mac_interpolate_mapped_z(dim, mesh))

Call_linear_interpolate_to_particle_z(t) ==
    \E sc \in Starts, nc \in 0..MaxComp, na \in 0..MaxArrays, stag \in Staggerings :
        Do(t, "linear_interpolate_to_particle_z", nc, Request("z", mesh, stag, sc, nc, na))

\* calls of the orthogonal entry points
Next ==
    \E t \in Threads :
        \/ Call_cic_interpolate(t)
        \/ Call_cic_interpolate_cc(t)
        \/ Call_cic_interpolate_nd(t)
        \/ Call_mac_interpolate(t)
        \/ Call_linear_interpolate_to_particle(t)

Spec == Init /\ [][Next]_vars

\* calls of the terrain-fitted entry points
NextZ ==
    \E t \in Threads :
        \/ Call_cic_interpolate_mapped_z(t)
        \/ Call_cic_interpolate_cc_mapped_z(t)
        \/ Call_cic_interpolate_nd_mapped_z(t)
        \/ Call_mac_interpolate_mapped_z(t)
        \/ Call_linear_interpolate_to_particle_z(t)

SpecZ == InitZ /\ [][NextZ]_vars

\* the terrain-fitted entry points on the grid with plo = 1/4 and cells of
\* width 1/2, for every seed and both terrains
InitLoc == InitOn({1}, {Grid(1, 2)}, [{1} -> Positions], Seeds, {"flat", "tilted"})

SpecLoc == InitLoc /\ [][NextZ]_vars

\* ------------------------------------------------- concurrent invocations
\* The kernels are device functions: a parallel loop over the particles runs
\* one invocation per particle, all with the same entry point and arguments,
\* each writing the buffer `val` it was handed.  The statements of the
\* invocations interleave.

\* the parallel loop starts: every invocation is handed the request
Launch(fn, M, req) ==
    /\ \A t \in Threads : call[t] = NoCall
    /\ call' = [t \in Threads |-> [fn |-> fn, M |-> M, kernel |-> req.kernel,
                                   args |-> req.args]]
    /\ st' = [t \in Threads |-> Entry(st[t].val, req.kernel)]
    /\ UNCHANGED <<inputs, gmres>>

Launch_cic_interpolate ==
    \E M \in 1..MaxComp : Launch("cic_interpolate", M, cic_interpolate(mesh[1], M))

Launch_cic_interpolate_cc ==
    \E M \in 1..MaxComp : Launch("cic_interpolate_cc", M, cic_interpolate_cc(mesh[1], M))

Launch_cic_interpolate_nd ==
    \E M \in 1..MaxComp : Launch("cic_interpolate_nd", M, cic_interpolate_nd(mesh[1], M))

Launch_mac_interpolate == Launch("mac_interpolate", 1, mac_interpolate(dim, mesh))

Launch_linear_interpolate_to_particle ==
    \E sc \in Starts, nc \in 0..MaxComp, na \in 0..MaxArrays :
        Launch("linear_interpolate_to_particle", nc,
               Request("orth", mesh, [d \in 1..NumMesh |-> BasisVector((d - 1) % 3)], sc, nc, na))

Launch_cic_interpolate_mapped_z ==
    \E M \in 1..MaxComp :
        Launch("cic_interpolate_mapped_z", M, cic_interpolate_mapped_z(mesh[1], M))

Launch_cic_interpolate_cc_mapped_z ==
    \E M \in 1..MaxComp :
        Launch("cic_interpolate_cc_mapped_z", M, cic_interpolate_cc_mapped_z(mesh[1], M))

Launch_cic_interpolate_nd_mapped_z ==
    \E M \in 1..MaxComp :
        Launch("cic_interpolate_nd_mapped_z", M, cic_interpolate_nd_mapped_z(mesh[1], M))

Launch_mac_interpolate_mapped_z ==
    Launch("mac_interpolate_mapped_z", 1, mac_interpolate_mapped_z(dim, mesh))

Launch_linear_interpolate_to_particle_z ==
    \E sc \in Starts, nc \in 0..MaxComp, na \in 0..MaxArrays :
        Launch("linear_interpolate_to_particle_z", nc,
               Request("z", mesh, [d \in 1..NumMesh |-> BasisVector((d - 1) % 3)], sc, nc, na))

\* every invocation writing one and the same buffer
AdvanceSharedVal(s, t) ==
    LET new == Step(Env(t), call[t].args, s[t])
    IN  [u \in DOMAIN s |-> IF u = t THEN new ELSE [s[u] EXCEPT !.val = new.val]]

\* invocation t executes its next statement, on its own locals and on the
\* buffer `val` it was handed
Advance(s, t) == [s EXCEPT ![t] = Step(Env(t), call[t].args, s[t])]

\* invocation t executes the statement at label pc
At_pc(t, pc) ==
    /\ Called(t)
    /\ st[t].pc = pc
    /\ st' = Advance(st, t)
    /\ UNCHANGED <<inputs, call, gmres>>

\* the 1D check on entry to the terrain-fitted kernel
EnterZ(t) == At_pc(t, "entry")

\* the test of the array loop and the index and weight computation
ArrayLoop(t) == At_pc(t, "for_d")

\* the test of the component loop and the zeroing of val[ctr]
ComponentLoop(t) == At_pc(t, "for_comp")

\* one pass of the corner loop, or the step to the next component
CornerLoop(t) == At_pc(t, "corner")

NextPar ==
    \/ Launch_cic_interpolate
    \/ Launch_cic_interpolate_cc
    \/ Launch_cic_interpolate_nd
    \/ Launch_mac_interpolate
    \/ Launch_linear_interpolate_to_particle
    \/ Launch_cic_interpolate_mapped_z
    \/ Launch_cic_interpolate_cc_mapped_z
    \/ Launch_cic_interpolate_nd_mapped_z
    \/ Launch_mac_interpolate_mapped_z
    \/ Launch_linear_interpolate_to_particle_z
    \/ \E t \in Threads :
         \/ EnterZ(t)
         \/ ArrayLoop(t)
         \/ ComponentLoop(t)
         \/ CornerLoop(t)

SpecPar == InitPar /\ [][NextPar]_vars

\* -------------------------------------------------- the GMRESMLMGT object
\* a build with no particle: only the adapter is used
InitG == InitOn({}, {Grid(0, 1)}, {<<>>}, {0}, {"flat"})

\* the caller calls usePrecond(new_flag)
Call_usePrecond ==
    /\ \E new_flag \in BOOLEAN :
         LET r == usePrecond(gmres.self, new_flag)
         IN  gmres' = [gmres EXCEPT !.self = r.self, !.ret = r.ret,
                                    !.requested = new_flag,
                                    !.op = MemberCall("usePrecond", new_flag, 0, 0)]
    /\ UNCHANGED <<inputs, call, st>>

\* the caller calls precond(lhs, rhs); every smoothing pass leaves some
\* MultiFab in lhs
Call_precond ==
    /\ \E lhs \in MFs, rhs \in MFs, smoothed \in [1..NumSmooth -> MFs] :
         LET r == precond(gmres.self, lhs, rhs, smoothed)
         IN  gmres' = [gmres EXCEPT !.self = r.self, !.lhs = r.lhs, !.rhs = r.rhs,
                                    !.calls = r.calls,
                                    !.op = MemberCall("precond", FALSE, lhs, rhs)]
    /\ UNCHANGED <<inputs, call, st>>

NextG ==
    \/ Call_usePrecond
    \/ Call_precond

SpecG == InitG /\ [][NextG]_vars

\* ------------------------------------------------- stating the properties
\* invocation t called an entry point of kernel kn and the call returned
Returned(t, kn) == Called(t) /\ call[t].kernel = kn /\ st[t].pc = "done"

\* the sum of f[i] over i in 0..n-1
RECURSIVE SumTo(_, _)
SumTo(f, n) == IF n = 0 THEN Real(0) ELSE RAdd(SumTo(f, n - 1), f[n - 1])

\* bit a (1, 2, 3) of corner number c: ii, jj, kk
Bit(c, a) == IF a = 1 THEN c % 2 ELSE IF a = 2 THEN (c \div 2) % 2 ELSE c \div 4

\* fractional index of the particle on axis a for a field of staggering nod
FracOf(e, nod, a) ==
    RSub(RMul(RSub(e.pos[a], e.plo[a]), e.dxi[a]), IF nod[a] = 0 THEN Half ELSE Real(0))

\* the multilinear interpolant of component c of field f, staggering nod, at
\* the particle of e: the sum over the 2^D corners of the field value times
\* the product of the per-axis weights {1 - (l - i0), l - i0}
Multilinear(e, f, nod, c) ==
    LET l   == [a \in 1..3 |-> FracOf(e, nod, a)]
        i0  == [a \in 1..3 |-> IF a <= e.dim THEN Floor(l[a]) ELSE 0]
        x   == [a \in 1..3 |-> RSub(l[a], Real(i0[a]))]
        w(a, b) == IF a > e.dim THEN Real(1)
                   ELSE IF b = 0 THEN RSub(Real(1), x[a]) ELSE x[a]
        bit(n, a) == IF a <= e.dim THEN Bit(n, a) ELSE 0
        term == [n \in 0..(NumCorners(e.dim) - 1) |->
                    RMul(At(f, i0[1] + bit(n, 1), i0[2] + bit(n, 2), i0[3] + bit(n, 3), c),
                         RMul(RMul(w(1, Bit(n, 1)), w(2, Bit(n, 2))), w(3, Bit(n, 3))))]
    IN  SumTo(term, NumCorners(e.dim))

\* the 2D cell-centered scenario: 10, 20, 30, 40 at cells (0,0), (1,0), (0,1),
\* (1,1), plo = (0,0), dxi = (1,1), particle at (1.0, 1.0)
Scenario25(t) ==
    /\ dim = 2
    /\ plo[1] = Real(0) /\ plo[2] = Real(0)
    /\ dxi[1] = Real(1) /\ dxi[2] = Real(1)
    /\ pos[t][1] = Real(1) /\ pos[t][2] = Real(1)
    /\ At(mesh[1], 0, 0, 0, 0) = Real(10) /\ At(mesh[1], 1, 0, 0, 0) = Real(20)
    /\ At(mesh[1], 0, 1, 0, 0) = Real(30) /\ At(mesh[1], 1, 1, 0, 0) = Real(40)
    /\ Returned(t, "orth")
    /\ call[t].fn = "cic_interpolate_cc"
    /\ call[t].M >= 1

\* C1: every value linear_interpolate_to_particle writes, for array d and
\* component c, is the sum over the 2^D corners of field_d(i0+ii, j0+jj,
\* k0+kk, c) times the product of the per-axis weights; in the 2D scenario
\* above the value is 25.
C1_CornerSum ==
    \A t \in Threads :
        Returned(t, "orth") =>
            /\ \A n \in 1..Len(st[t].log) :
                 LET w == st[t].log[n]
                 IN  st[t].val[w[3]] =
                        Multilinear(Env(t), call[t].args.data_arr[w[1] + 1],
                                    call[t].args.is_nodal[w[1] + 1], w[2])
            /\ Scenario25(t) => st[t].val[0] = Real(25)

\* C1 witness: the scenario has been interpolated to 25
C1_Witness ==
    \E t \in Threads : Scenario25(t) /\ st[t].val[0] = Real(25) /\ Len(st[t].log) >= 1

\* the <<d, comp>> pairs of arrays 0..na-1, components sc..sc+nc-1, array-major
Expected(sc, nc, na) == [n \in 1..(na * nc) |-> <<(n - 1) \div nc, sc + ((n - 1) % nc)>>]

\* C2: both general kernels interpolate, for each array, exactly the
\* components start_comp .. start_comp+ncomp-1, and so write exactly
\* num_arrays * ncomp values.
C2_ComponentRange ==
    \A t \in Threads :
        (/\ Called(t)
         /\ call[t].fn \in {"linear_interpolate_to_particle", "linear_interpolate_to_particle_z"}
         /\ st[t].pc = "done") =>
            LET a == call[t].args
            IN  /\ Len(st[t].log) = a.num_arrays * a.ncomp
                /\ [n \in 1..Len(st[t].log) |-> <<st[t].log[n][1], st[t].log[n][2]>>]
                     = Expected(a.start_comp, a.ncomp, a.num_arrays)

\* C3: with start_comp = 0, linear_interpolate_to_particle writes exactly the
\* positions 0 .. num_arrays*ncomp-1, position d*ncomp+c holding the complete
\* value of array d, component c, and leaves every other position (all of
\* them when num_arrays = 0 or ncomp = 0) as it was.
C3_BufferLayout ==
    \A t \in Threads :
        (Returned(t, "orth") /\ call[t].args.start_comp = 0) =>
            LET a == call[t].args
                n == a.num_arrays * a.ncomp
            IN  /\ {st[t].log[m][3] : m \in 1..Len(st[t].log)} = 0..(n - 1)
                /\ Len(st[t].log) = n
                /\ \A d \in 0..(a.num_arrays - 1), c \in 0..(a.ncomp - 1) :
                     st[t].val[d * a.ncomp + c] =
                        Multilinear(Env(t), a.data_arr[d + 1], a.is_nodal[d + 1], c)
                /\ \A i \in n..(BufLen - 1) : st[t].val[i] = FreshVal[i]
                /\ (a.num_arrays = 0 \/ a.ncomp = 0) => st[t].val = FreshVal

\* C3 witness: two arrays of two components were written, and a call with no
\* component left the buffer alone
C3_Witness ==
    \E t \in Threads :
        /\ Returned(t, "orth")
        /\ call[t].fn = "linear_interpolate_to_particle"
        /\ call[t].args.start_comp = 0
        /\ call[t].args.ncomp = 2
        /\ call[t].args.num_arrays = 2
        /\ st[t].val[3] # FreshVal[3]
        /\ st[t].val[4] = FreshVal[4]

\* the sample location of index i on axis a of a field of staggering nod:
\* plo + i/dxi on a nodal axis, plo + (i + 0.5)/dxi on a cell-centered one
SamplePos(e, nod, a, i) ==
    RAdd(e.plo[a], RDiv(RAdd(Real(i), IF nod[a] = 0 THEN Half ELSE Real(0)), e.dxi[a]))

\* the indices (at most one) whose sample location on axis a is the particle's
SampleIdx(e, nod, a) ==
    LET i == Floor(RMul(RSub(e.pos[a], e.plo[a]), e.dxi[a]))
    IN  {x \in {i - 1, i, i + 1} : e.pos[a] = SamplePos(e, nod, a, x)}

\* the particle coincides with a sample location of the field on every axis
OnSample(e, nod) == \A a \in 1..e.dim : SampleIdx(e, nod, a) # {}

\* ... and the index of that sample (0 on the axes beyond the dimension)
SampleAt(e, nod) ==
    [a \in 1..3 |-> IF a <= e.dim THEN CHOOSE i \in SampleIdx(e, nod, a) : TRUE ELSE 0]

\* field f with every value except the one at index x changed by b
Perturbed(f, x, b) == [f EXCEPT !.bump = b, !.at = x]

\* C4: when the particle coincides with a sample location of array d, the
\* orthogonal kernel returns exactly the value stored at that index, whatever
\* the neighbouring indices hold, for every staggering and dimension.
C4_ExactAtSamples ==
    \A t \in Threads :
        Returned(t, "orth") =>
            \A n \in 1..Len(st[t].log) :
                LET w   == st[t].log[n]
                    f   == call[t].args.data_arr[w[1] + 1]
                    nod == call[t].args.is_nodal[w[1] + 1]
                    x   == SampleAt(Env(t), nod)
                    \* component w[2] of the field alone, its neighbours changed by b
                    alone(b) == linear_interpolate_to_particle(Env(t), <<Perturbed(f, x, b)>>,
                                    FreshVal, <<nod>>, 0, w[2] + 1, 1).val[w[2]]
                IN  OnSample(Env(t), nod) =>
                        /\ st[t].val[w[3]] = At(f, x[1], x[2], x[3], w[2])
                        /\ \A b \in {-5, 1} : alone(b) = At(f, x[1], x[2], x[3], w[2])

\* C4 witness: a face-centered call in 3D whose particle sits on a sample of
\* array 1 (nodal in y, cell-centered in x and z), at a negative-free index
C4_Witness ==
    \E t \in Threads :
        /\ Returned(t, "orth")
        /\ call[t].fn = "mac_interpolate"
        /\ dim = 3
        /\ OnSample(Env(t), call[t].args.is_nodal[2])
        /\ st[t].val[1] = At(mesh[2], SampleAt(Env(t), call[t].args.is_nodal[2])[1],
                             SampleAt(Env(t), call[t].args.is_nodal[2])[2],
                             SampleAt(Env(t), call[t].args.is_nodal[2])[3], 0)
        /\ st[t].val[1] # At(mesh[2], SampleAt(Env(t), call[t].args.is_nodal[2])[1] + 1,
                             SampleAt(Env(t), call[t].args.is_nodal[2])[2],
                             SampleAt(Env(t), call[t].args.is_nodal[2])[3], 0)

\* the field a*A + b*B
Combination(a, A, b, B) ==
    LET m(x, y) == a * x * B.den + b * y * A.den
    IN  [c0 |-> m(A.c0, B.c0), ci |-> m(A.ci, B.ci), cj |-> m(A.cj, B.cj),
         ck |-> m(A.ck, B.ck), cn |-> m(A.cn, B.cn), cij |-> m(A.cij, B.cij),
         cjk |-> m(A.cjk, B.cjk), cii |-> m(A.cii, B.cii), cjj |-> m(A.cjj, B.cjj),
         ckk |-> m(A.ckk, B.ckk), den |-> A.den * B.den, bump |-> 0, at |-> <<0, 0, 0>>]

\* the scalar pairs <<a, b>> tried
Scalars == {<<1, 1>>, <<2, -3>>}

\* the output of the orthogonal kernel for the single array f of staggering
\* nod, components as in args a
Single(t, a, f, nod) ==
    linear_interpolate_to_particle(Env(t), <<f>>, FreshVal, <<nod>>,
                                   a.start_comp, a.ncomp, 1).val

\* C5: interpolating a*A + b*B gives a*interp(A) + b*interp(B), for fields of
\* the same staggering, at every position (A: the first array of the call,
\* B: the second field of the mesh).
C5_Linearity ==
    \A t \in Threads :
        (Returned(t, "orth") /\ call[t].args.num_arrays >= 1) =>
            LET a   == call[t].args
                A   == a.data_arr[1]
                B   == mesh[2]
                nod == a.is_nodal[1]
                n   == Cardinality({m \in 1..Len(st[t].log) : st[t].log[m][1] = 0})
                Y   == Single(t, a, B, nod)
            IN  \A s \in Scalars :
                    LET Z == Single(t, a, Combination(s[1], A, s[2], B), nod)
                    IN  \A i \in 0..(n - 1) :
                            Z[i] = RAdd(RMul(Real(s[1]), st[t].val[i]),
                                        RMul(Real(s[2]), Y[i]))

\* C5 witness: a call interpolated two components of A at a position off the
\* grid, where interp(A) and interp(B) differ
C5_Witness ==
    \E t \in Threads :
        /\ Returned(t, "orth")
        /\ call[t].args.num_arrays >= 1
        /\ call[t].args.ncomp = 2
        /\ call[t].args.start_comp = 0
        /\ dim = 3
        /\ ~OnSample(Env(t), call[t].args.is_nodal[1])
        /\ Single(t, call[t].args, mesh[2], call[t].args.is_nodal[1])[1] # st[t].val[1]

\* the grid of e with its origin moved by h cells on every axis
Shifted(e, h) == [e EXCEPT !.plo = [a \in 1..3 |-> RAdd(e.plo[a], RDiv(h, e.dxi[a]))]]

\* C6: a cell-centered field C and a node-centered field N with N(i) = C(i),
\* the nodal grid's origin half a cell further so that node i lies at the
\* center of cell i, interpolate to the same values: cic_interpolate_cc on C
\* equals cic_interpolate_nd on N at every query point.
C6_StaggeringConsistency ==
    \A t \in Threads :
        /\ (Returned(t, "orth") /\ call[t].fn = "cic_interpolate_cc") =>
              st[t].val = Invoke(Shifted(Env(t), Half),
                                 cic_interpolate_nd(mesh[1], call[t].M), FreshVal).val
        /\ (Returned(t, "orth") /\ call[t].fn = "cic_interpolate_nd") =>
              st[t].val = Invoke(Shifted(Env(t), RNeg(Half)),
                                 cic_interpolate_cc(mesh[1], call[t].M), FreshVal).val

\* C6 witness: cic_interpolate_cc interpolated two components off the grid
C6_Witness ==
    \E t \in Threads :
        /\ Returned(t, "orth")
        /\ call[t].fn = "cic_interpolate_cc"
        /\ call[t].M = 2
        /\ dim = 2
        /\ ~OnSample(Env(t), <<0, 0, 0>>)
        /\ st[t].val[1] # FreshVal[1]

\* staggering of array d (0-based) of the face-centered entry points: nodal
\* on axis d only
FaceNodal(d) == [a \in 1..3 |-> IF a = d + 1 THEN 1 ELSE 0]

\* C7: cic_interpolate and cic_interpolate_cc are the general kernel with one
\* array, components 0..M-1, every axis cell-centered; cic_interpolate_nd the
\* same with every axis nodal; mac_interpolate is it with D arrays of one
\* component, array d nodal on axis d only, the value of array d at position d.
C7_EntryPoints ==
    \A t \in Threads :
        Returned(t, "orth") =>
            /\ call[t].fn \in {"cic_interpolate", "cic_interpolate_cc"} =>
                 st[t].val = linear_interpolate_to_particle(Env(t), <<mesh[1]>>, FreshVal,
                                 <<<<0, 0, 0>>>>, 0, call[t].M, 1).val
            /\ call[t].fn = "cic_interpolate_nd" =>
                 st[t].val = linear_interpolate_to_particle(Env(t), <<mesh[1]>>, FreshVal,
                                 <<<<1, 1, 1>>>>, 0, call[t].M, 1).val
            /\ call[t].fn = "mac_interpolate" =>
                 /\ st[t].val = linear_interpolate_to_particle(Env(t), mesh, FreshVal,
                                 [d \in 1..dim |-> FaceNodal(d - 1)], 0, 1, dim).val
                 /\ \A d \in 0..(dim - 1) :
                        st[t].val[d] = Multilinear(Env(t), mesh[d + 1], FaceNodal(d), 0)
                 /\ \A i \in dim..(BufLen - 1) : st[t].val[i] = FreshVal[i]

\* C7 witness: mac_interpolate returned in 3D, off the grid
C7_Witness ==
    \E t \in Threads :
        /\ Returned(t, "orth")
        /\ call[t].fn = "mac_interpolate"
        /\ dim = 3
        /\ ~OnSample(Env(t), FaceNodal(0))
        /\ st[t].val[2] # FreshVal[2]

\* the height field is that of a flat terrain: plo_v + k/dxi_v at vertical
\* index k, whatever the horizontal indices
FlatTerrain ==
    LET v == Vertical(dim)
    IN  \A i \in {-1, 0, 3}, j \in {-1, 0, 3}, k \in -2..5 :
            LET x == <<i, j, k>>
                y == [a \in 1..3 |-> IF a = v THEN k ELSE x[a]]
            IN  At(height, y[1], y[2], y[3], 0)
                  = RAdd(plo[v], RDiv(Real(k), dxi[v]))

\* the seed of invocation t is the vertical cell containing its particle
SeedInCell(t) ==
    LET v == Vertical(dim)
    IN  idata[t] = Floor(RMul(RSub(pos[t][v], plo[v]), dxi[v]))

\* C8: on a flat terrain, with the seed the vertical cell containing the
\* particle, linear_interpolate_to_particle_z returns the values of
\* linear_interpolate_to_particle for the same fields, staggerings and
\* position, in 2D and in 3D.
C8_FlatTerrain ==
    \A t \in Threads :
        (Returned(t, "z") /\ dim >= 2 /\ FlatTerrain /\ SeedInCell(t)) =>
            LET a == call[t].args
            IN  st[t].val = linear_interpolate_to_particle(Env(t), a.data_arr, FreshVal,
                                a.is_nodal, a.start_comp, a.ncomp, a.num_arrays).val

\* C8 witness: the cell-centered terrain call returned in 3D on a flat
\* terrain with the seed in the particle's cell, the particle below the
\* center of that cell
C8_Witness ==
    \E t \in Threads :
        /\ Returned(t, "z")
        /\ call[t].fn = "cic_interpolate_cc_mapped_z"
        /\ call[t].M = 2
        /\ dim = 3
        /\ FlatTerrain
        /\ SeedInCell(t)
        /\ st[t].i0[3] = idata[t] - 1
        /\ st[t].val[1] # FreshVal[1]

\* C9: in a 1D build linear_interpolate_to_particle_z and every *_mapped_z
\* entry point abort for every input: no normal return, no field or height
\* value read, nothing written to the output buffer.
C9_Abort1D ==
    \A t \in Threads :
        (Called(t) /\ call[t].kernel = "z" /\ dim = 1) =>
            /\ st[t].pc = "aborted"
            /\ st[t].reads = 0
            /\ st[t].log = <<>>
            /\ st[t].val = FreshVal

\* C9 witness: a terrain entry point was called in a 1D build with
\* components and arrays to interpolate
C9_Witness ==
    \E t \in Threads :
        /\ Called(t)
        /\ dim = 1
        /\ call[t].fn = "linear_interpolate_to_particle_z"
        /\ call[t].args.num_arrays = 2
        /\ call[t].args.ncomp = 2
        /\ call[t].args.start_comp = 0
        /\ st[t].pc = "aborted"

\* C10: invocations running concurrently for several particles, each with
\* its own output buffer, end under every interleaving with exactly the
\* values a sequential call for that particle produces, and no call changes
\* the field arrays, the height field, the particle data or the grid metadata.
C10_Isolation ==
    /\ [](\A t \in Threads :
            (Called(t) /\ Finished(st[t])) =>
                /\ st[t].val = Invoke(Env(t), call[t], FreshVal).val
                /\ st[t].pc = Invoke(Env(t), call[t], FreshVal).pc)
    /\ [][UNCHANGED inputs]_vars

\* C10 witness: two invocations of the terrain-fitted face-centered entry
\* point have both returned in 3D, with different values in their buffers
C10_Witness ==
    /\ DOMAIN st = {1, 2}
    /\ Returned(1, "z")
    /\ Returned(2, "z")
    /\ dim = 3
    /\ call[1].fn = "mac_interpolate_mapped_z"
    /\ st[1].val[2] # st[2].val[2]
    /\ st[1].val[2] # FreshVal[2]

\* 0 <= x <= 1
InUnit(x) == RGeq(x, Real(0)) /\ RGeq(Real(1), x)

\* the weight the orthogonal kernel gave corner c: the product over the
\* axes of the build of the entries of the weight tables
CornerWeight(t, c) ==
    LET w(a) == IF a <= dim THEN st[t].s[a][Bit(c, a) + 1] ELSE Real(1)
    IN  RMul(RMul(w(1), w(2)), w(3))

\* C11: for the array the orthogonal kernel interpolated last, on every axis
\* the lower-corner index i0 is the floor of the fractional index l (i0 <= l
\* < i0 + 1, also for negative l), the weight pair is {1 - (l - i0), l - i0}
\* with l - i0 in [0,1), every one of the 2^D corner weights is in [0,1],
\* and the corner weights sum to 1.
C11_ConvexWeights ==
    \A t \in Threads :
        (Returned(t, "orth") /\ call[t].args.num_arrays >= 1) =>
            LET nod == call[t].args.is_nodal[call[t].args.num_arrays]
                cw  == [c \in 0..(NumCorners(dim) - 1) |-> CornerWeight(t, c)]
            IN  /\ \A a \in 1..dim :
                     LET l == FracOf(Env(t), nod, a)
                         x == RSub(l, Real(st[t].i0[a]))
                     IN  /\ RGeq(l, Real(st[t].i0[a]))
                         /\ ~RGeq(l, Real(st[t].i0[a] + 1))
                         /\ RGeq(x, Real(0)) /\ ~RGeq(x, Real(1))
                         /\ st[t].s[a] = <<RSub(Real(1), x), x>>
                /\ \A c \in DOMAIN cw : InUnit(cw[c])
                /\ SumTo(cw, NumCorners(dim)) = Real(1)

\* C11 witness: a 3D call returned whose particle has a negative fractional
\* index on the x axis (lower corner -1) and lies strictly inside the cell
\* on every axis
C11_Witness ==
    \E t \in Threads :
        /\ Returned(t, "orth")
        /\ call[t].args.num_arrays >= 1
        /\ dim = 3
        /\ st[t].i0[1] = -1
        /\ \A a \in 1..3 : st[t].s[a][2] # Real(0)
        /\ \A c \in 0..7 : CornerWeight(t, c) # Real(0) /\ InUnit(CornerWeight(t, c))

\* the height reconstructed at index q = <<i, j, k>> for a field of staggering
\* nod: the mean of the 4 (2D) or 8 (3D) height reads at q offset by 0 or by
\* the cell-centered flag on every axis of the build
HeightRec(e, nod, q) ==
    LET n == NumCorners(e.dim)
        off(c, a) == IF a <= e.dim /\ nod[a] = 0 THEN Bit(c, a) ELSE 0
        read == [c \in 0..(n - 1) |->
                    At(e.height, q[1] + off(c, 1), q[2] + off(c, 2), q[3] + off(c, 3), 0)]
    IN  RDiv(SumTo(read, n), Real(n))

\* the number of horizontal corners: 2 in 2D, 4 in 3D
NumHorizontal(d) == NumCorners(d) \div 2

\* the lower horizontal indices of the particle and its horizontal fractions
HorizontalIdx(e, nod, a) == Floor(FracOf(e, nod, a))

HorizontalFrac(e, nod, a) == RSub(FracOf(e, nod, a), Real(HorizontalIdx(e, nod, a)))

\* the index of horizontal corner c (bits ii, jj) at vertical index kv
ColumnIdx(e, nod, c, kv) ==
    IF e.dim = 3
    THEN <<HorizontalIdx(e, nod, 1) + Bit(c, 1), HorizontalIdx(e, nod, 2) + Bit(c, 2), kv>>
    ELSE <<HorizontalIdx(e, nod, 1) + Bit(c, 1), kv, 0>>

\* the horizontal interpolation weight of horizontal corner c
HorizontalWeight(e, nod, c) ==
    LET w(a) == IF Bit(c, a) = 0 THEN RSub(Real(1), HorizontalFrac(e, nod, a))
                                 ELSE HorizontalFrac(e, nod, a)
    IN  IF e.dim = 3 THEN RMul(w(1), w(2)) ELSE w(1)

\* the terrain elevation under the particle at vertical index kv: the
\* reconstructed heights of the horizontal corners blended with the
\* horizontal weights
BlendedHeight(e, nod, kv) ==
    LET term == [c \in 0..(NumHorizontal(e.dim) - 1) |->
                    RMul(HorizontalWeight(e, nod, c), HeightRec(e, nod, ColumnIdx(e, nod, c, kv)))]
    IN  SumTo(term, NumHorizontal(e.dim))

\* a terrain-fitted call of invocation t returned after interpolating at
\* least one array
ReturnedZ(t) == Returned(t, "z") /\ call[t].args.num_arrays >= 1

\* the staggering of the array a call interpolated last
LastNodal(t) == call[t].args.is_nodal[call[t].args.num_arrays]

\* the height reads an array costs: 2 or 4 reconstructions at the seed and
\* 4 or 8 at the resolved index, of 4 or 8 reads each
HeightReads(d) == (NumHorizontal(d) + NumCorners(d)) * NumCorners(d)

\* C12: the vertical lower index the terrain-fitted kernel resolves is the
\* seed k = idata(0) when the particle's elevation is at or above the
\* blended height at k and k-1 otherwise, hence always one of {k, k-1}; the
\* kernel reads the height field a fixed number of times for it (no search).
C12_LocatorSingleStep ==
    \A t \in Threads :
        ReturnedZ(t) =>
            LET v   == Vertical(dim)
                k   == idata[t]
                est == BlendedHeight(Env(t), LastNodal(t), k)
                k0  == st[t].i0[v]
            IN  /\ k0 = (IF RGeq(pos[t][v], est) THEN k ELSE k - 1)
                /\ k0 \in {k, k - 1}
                /\ st[t].reads = call[t].args.num_arrays * HeightReads(dim)
                                   + Len(st[t].log) * NumCorners(dim)

\* C12 witness: on a sloping terrain in 3D a call whose particle lies below
\* the blended height at its seed stepped down to the index below the seed
C12_Witness ==
    \E t \in Threads :
        /\ ReturnedZ(t)
        /\ dim = 3
        /\ height.ci # 0
        /\ st[t].i0[3] = idata[t] - 1
        /\ ~RGeq(pos[t][3], BlendedHeight(Env(t), LastNodal(t), idata[t]))
        /\ Len(st[t].log) >= 1

\* the height field is strictly increasing in the vertical index
IncreasingTerrain ==
    LET v == Vertical(dim)
        h(i, j, k) == IF v = 3 THEN At(height, i, j, k, 0) ELSE At(height, i, k, 0, 0)
    IN  \A i \in {-1, 3}, j \in {-1, 3}, k \in -2..4 :
            RGeq(h(i, j, k + 1), h(i, j, k)) /\ h(i, j, k + 1) # h(i, j, k)

\* the blended heights under the particle of invocation t at the vertical
\* indices k-1, k, k+1, k+2 around its seed k
Ladder(t) ==
    <<BlendedHeight(Env(t), LastNodal(t), idata[t] - 1),
      BlendedHeight(Env(t), LastNodal(t), idata[t]),
      BlendedHeight(Env(t), LastNodal(t), idata[t] + 1),
      BlendedHeight(Env(t), LastNodal(t), idata[t] + 2)>>

\* with H the ladder of invocation t, vertical index kv (one of k-1, k, k+1)
\* brackets its particle: H at kv <= particle elevation < H at kv + 1
Brackets(t, H, kv) ==
    LET pv == pos[t][Vertical(dim)]
        m  == kv - idata[t] + 2
    IN  RGeq(pv, H[m]) /\ ~RGeq(pv, H[m + 1])

\* C13 as stated: on a terrain strictly increasing in the vertical index,
\* when the seed is the particle's true vertical index, the index above it
\* or the index below it, the resolved index k0 brackets the particle.
C13_SeedAdjacent ==
    \A t \in Threads :
        (ReturnedZ(t) /\ IncreasingTerrain) =>
            LET H == Ladder(t)
            IN  (\E K \in {idata[t] - 1, idata[t], idata[t] + 1} : Brackets(t, H, K)) =>
                    Brackets(t, H, st[t].i0[Vertical(dim)])

\* C13 amended: on a terrain strictly increasing in the vertical index, when
\* the seed is the particle's true vertical index or the index immediately
\* above it, the resolved index k0 brackets the particle (the locator steps
\* down from the seed at most once and never up).
C13_SeedAtOrAbove ==
    \A t \in Threads :
        (ReturnedZ(t) /\ IncreasingTerrain) =>
            LET H == Ladder(t)
            IN  (\E K \in {idata[t] - 1, idata[t]} : Brackets(t, H, K)) =>
                    Brackets(t, H, st[t].i0[Vertical(dim)])

\* C13 witness: on a sloping terrain in 3D the seed was the index above the
\* particle's, and the call stepped down to the bracketing index
C13_Witness ==
    \E t \in Threads :
        /\ ReturnedZ(t)
        /\ dim = 3
        /\ height.ci # 0
        /\ IncreasingTerrain
        /\ Brackets(t, Ladder(t), idata[t] - 1)
        /\ st[t].i0[3] = idata[t] - 1
        /\ Len(st[t].log) >= 1

\* the vertical index resolved from the seed for a field of staggering nod
ResolvedIdx(e, nod) ==
    IF RGeq(e.pos[Vertical(e.dim)], BlendedHeight(e, nod, e.idata)) THEN e.idata
                                                                     ELSE e.idata - 1

\* the terrain-fitted weights for a field of staggering nod at the particle
\* of e: k0 the resolved vertical index; h the vertical fraction of every
\* horizontal corner hc, (elevation - H_lo) / (H_hi - H_lo) with H_lo, H_hi
\* the heights reconstructed at hc at k0 and k0 + 1; w the weight of every
\* corner c = hc + NumHorizontal * up: the horizontal weight of hc times
\* 1 - h[hc] (up = 0) or h[hc] (up = 1)
TerrainWeights(e, nod) ==
    LET pv == e.pos[Vertical(e.dim)]
        nh == NumHorizontal(e.dim)
        k0 == ResolvedIdx(e, nod)
        frac(hc) == LET lo == HeightRec(e, nod, ColumnIdx(e, nod, hc, k0))
                        hi == HeightRec(e, nod, ColumnIdx(e, nod, hc, k0 + 1))
                    IN  RDiv(RSub(pv, lo), RSub(hi, lo))
        h  == IF e.dim = 3 THEN <<frac(0), frac(1), frac(2), frac(3)>>
                           ELSE <<frac(0), frac(1)>>
        cw(c) == RMul(HorizontalWeight(e, nod, c % nh),
                      IF c \div nh = 0 THEN RSub(Real(1), h[(c % nh) + 1])
                                        ELSE h[(c % nh) + 1])
    IN  [k0 |-> k0, h |-> h,
         w  |-> IF e.dim = 3
                THEN <<cw(0), cw(1), cw(2), cw(3), cw(4), cw(5), cw(6), cw(7)>>
                ELSE <<cw(0), cw(1), cw(2), cw(3)>>]

\* the terrain-fitted interpolant of component c of field f with weights W:
\* the sum over the 2^D corners of the field value at the corner times the
\* corner's weight
TerrainValue(e, f, nod, W, c) ==
    LET nh   == NumHorizontal(e.dim)
        term == [n \in 0..(NumCorners(e.dim) - 1) |->
                    LET q == ColumnIdx(e, nod, n % nh, W.k0 + (n \div nh))
                    IN  RMul(At(f, q[1], q[2], q[3], c), W.w[n + 1])]
    IN  SumTo(term, NumCorners(e.dim))

\* the combined weight the terrain-fitted kernel gave corner c of the array
\* it interpolated last: sx[ii] * sy[c] in 2D, sx[ii] * sy[jj] * sz[c] in 3D
CornerWeightZ(t, c) ==
    IF dim = 3
    THEN RMul(RMul(st[t].s[1][Bit(c, 1) + 1], st[t].s[2][Bit(c, 2) + 1]), st[t].s[3][c + 1])
    ELSE RMul(st[t].s[1][Bit(c, 1) + 1], st[t].s[2][c + 1])

\* C14: every value the terrain-fitted kernel writes, for array d and
\* component c, is the sum over the 2^D corners of field_d(corner, c) times
\* the horizontal weight of the corner times 1 - h (lower) or h (upper),
\* with h the vertical fraction of that horizontal corner between the
\* heights reconstructed there at k0 and k0 + 1; and, the reconstructed
\* heights differing at every horizontal corner, the 2^D combined weights
\* of the kernel are these weights and sum to 1.
C14_TerrainValue ==
    \A t \in Threads :
        ReturnedZ(t) =>
            \A d \in 0..(call[t].args.num_arrays - 1) :
                LET nod == call[t].args.is_nodal[d + 1]
                    W   == TerrainWeights(Env(t), nod)
                    cw  == [c \in 0..(NumCorners(dim) - 1) |-> CornerWeightZ(t, c)]
                IN  /\ \A n \in 1..Len(st[t].log) :
                         st[t].log[n][1] = d =>
                             st[t].val[st[t].log[n][3]] =
                                 TerrainValue(Env(t), call[t].args.data_arr[d + 1], nod, W,
                                              st[t].log[n][2])
                    /\ (/\ d = call[t].args.num_arrays - 1
                        /\ \A x \in 1..Len(W.h) : IsFinite(W.h[x])) =>
                            /\ st[t].i0[Vertical(dim)] = W.k0
                            /\ \A c \in DOMAIN cw : cw[c] = W.w[c + 1]
                            /\ SumTo(cw, NumCorners(dim)) = Real(1)

\* C14 witness: on a sloping terrain in 3D a value was written with two
\* horizontal corners of different vertical fractions, both strictly
\* between 0 and 1
C14_Witness ==
    \E t \in Threads :
        /\ ReturnedZ(t)
        /\ dim = 3
        /\ height.ci # 0
        /\ Len(st[t].log) >= 1
        /\ st[t].s[3][5] # st[t].s[3][6]
        /\ \A c \in 5..6 : InUnit(st[t].s[3][c]) /\ st[t].s[3][c] # Real(0)
                                                  /\ st[t].s[3][c] # Real(1)
        /\ st[t].val[0] # FreshVal[0]

\* the smoothing passes among the library calls c
Smooths(c) == {n \in 1..Len(c) : c[n].fn = "smooth"}

\* C15: the flag starts false and is always the one asked for last;
\* usePrecond(b) returns the flag as it was before the call and sets it to
\* b; precond changes neither the flag nor rhs and follows the flag asked
\* for last: false, it copies rhs into lhs without smoothing; true, it sets
\* lhs to zero and then makes exactly 4 smoothing passes, the first
\* starting from the zeroed lhs, only the first with skip-boundary-fill
\* true.
C15_PrecondSwitch ==
    /\ gmres.self.m_use_precond = FALSE
    /\ [](gmres.self.m_use_precond = gmres.requested)
    /\ [][gmres'.op.fn = "usePrecond" =>
             /\ gmres'.ret = gmres.self.m_use_precond
             /\ gmres'.self.m_use_precond = gmres'.op.new_flag]_gmres
    /\ [][gmres'.op.fn = "precond" =>
             /\ gmres'.self = gmres.self
             /\ gmres'.rhs = gmres'.op.rhs
             /\ \A n \in 1..Len(gmres'.calls) : gmres'.calls[n].rhs = gmres'.op.rhs
             /\ ~gmres.requested =>
                    /\ gmres'.lhs = gmres'.op.rhs
                    /\ Smooths(gmres'.calls) = {}
                    /\ Len(gmres'.calls) = 1 /\ gmres'.calls[1].fn = "Copy"
             /\ gmres.requested =>
                    /\ gmres'.calls[1].fn = "setVal"
                    /\ Smooths(gmres'.calls) = 2..5
                    /\ Len(gmres'.calls) = 5
                    /\ gmres'.calls[2].lhs = 0
                    /\ \A n \in 2..5 : gmres'.calls[n].skip = (n = 2)]_gmres

\* C15 witness: after the flag was true and was asked true again, precond
\* ran on a nonzero lhs, zeroed it and smoothed it four times to a result
\* other than rhs
C15_Witness ==
    /\ gmres.op.fn = "precond"
    /\ gmres.requested
    /\ gmres.ret
    /\ gmres.op.lhs # 0
    /\ Len(gmres.calls) = 5
    /\ gmres.calls[2].lhs = 0
    /\ gmres.lhs # gmres.rhs

====
